---- MODULE Spec2Model ----
(***************************************************************************)
(* Model of the vcpkg/ffmpeg addon preparer:                               *)
(*   - the brace scan of AddonPreparer::remove_main_function,              *)
(*   - the source patch operations of AddonPreparer,                       *)
(*   - the installation sequence of VcpkgManager::install_vcpkg.           *)
(*                                                                         *)
(* A source text is a sequence of tokens.  A token is either one byte the  *)
(* scanner distinguishes ("{", "}", the double quote, the backslash, a     *)
(* whitespace byte, any other byte "x") or a fixed run of bytes none of    *)
(* which the scanner distinguishes (a signature, a header name).  Offsets  *)
(* are Rust offsets: the number of tokens before the position.             *)
(***************************************************************************)
EXTENDS Integers, Sequences, FiniteSets, TLC

VARIABLES
    \* the brace scan (addon_preparer.rs 178-207)
    bytes, i, brace_count, in_string, escape_next, end_pos, scan_pc,
    \* the patch operations (addon_preparer.rs 139-231, 439)
    modified, input, applied, result,
    \* install_vcpkg and git_clone_with_retry (vcpkg_manager.rs 71-213): the
    \* position, the locals, the two paths on disk, the value returned
    pc, index, attempt, retry_last_error, last_error, clone_success,
    vcpkg_root_exists, vcpkg_exe_exists, install_result,
    \* what the run did: the clones invoked, the wait before each, the last failure,
    \* the invocations of the bootstrap script
    clones, delays, last_failure, bootstraps,
    \* line 188: the exit status of the bootstrap script, once it was run
    status,
    \* line 59: how `git --version` ended, once it was run
    git,
    \* install_packages (vcpkg_manager.rs 216-309): the position, the packages vcpkg
    \* has installed, the output of the last listing, the value returned, and the
    \* vcpkg commands issued
    pk_pc, installed, output, packages_result, commands,
    \* line 270: the exit status of `vcpkg remove`, once it was run
    removal,
    \* extract_ffmpeg (vcpkg_manager.rs 322-429): the position, the archive in the
    \* downloads directory, what is at output/ffmpeg now and at the call, the
    \* staging directory and the directories in it, the directory found in it,
    \* the value returned, the changes made to the file system
    ex_pc, archive, target_dir, target_before, temp_exists, temp_entries,
    extracted_top_dir, extract_result, fs_log,
    \* main (main.rs 7-64): the stage, the stages started, the exit code, the
    \* value prepare_addon_source returned, the run, how the run before ended
    stage, started, exit_code, addon_result, run, previous,
    \* prepare_addon_source (addon_preparer.rs 32-136, 443-512): the position, the
    \* addon_src directory, the files config.h, fftools/opt_common.c,
    \* fftools/ffmpeg.c, addon_src/ffmpeg.c and addon_src/binding.c, the value
    \* returned, the files written in this run, the run, and whether
    \* modify_opt_common_c has returned Ok
    ad_pc, addon_src_exists, config_h, opt_common_c, ffmpeg_c, target_ffmpeg_c,
    binding_c, prepare_result, writes, ad_run, opt_done

scanVars == <<bytes, i, brace_count, in_string, escape_next, end_pos, scan_pc>>
patchVars == <<modified, input, applied, result>>
installVars == <<pc, index, attempt, retry_last_error, last_error, clone_success,
                 vcpkg_root_exists, vcpkg_exe_exists, install_result,
                 clones, delays, last_failure, bootstraps, status, git>>
packagesVars == <<pk_pc, installed, output, packages_result, commands, removal>>
extractVars == <<ex_pc, archive, target_dir, target_before, temp_exists, temp_entries,
                 extracted_top_dir, extract_result, fs_log>>
mainVars == <<stage, started, exit_code, addon_result, run, previous>>
addonVars == <<ad_pc, addon_src_exists, config_h, opt_common_c, ffmpeg_c, target_ffmpeg_c,
               binding_c, prepare_result, writes, ad_run, opt_done>>
vars == <<scanVars, patchVars, installVars, packagesVars, extractVars, mainVars, addonVars>>

\* ------------------------------------------------------------------ bounds

\* longest buffer handed to the brace scan
MaxScanLen == 6
\* largest number of source fragments an input text is built from
MaxPieces == 4
\* number of different messages git may write to stderr
NumStderr == 2
\* the program is run at most this many times, one run after the other
MaxRuns == 2

\* ------------------------------------------------------------------ bytes

LBRACE == "{"
RBRACE == "}"
QUOTE == "\""
BACKSLASH == "\\"
NL == "\n"
SPACE == " "
PLAIN == "x"

\* Option<usize>::None
None == -1

\* Option<String>::None and Option<Box<dyn Error>>::None; a message is a tuple of its parts
NoError == <<>>

\* Result: Ok(value) and Err(message)
Ok(text) == [kind |-> "Ok", text |-> text]
Err(msg) == [kind |-> "Err", text |-> msg]

\* no listing was captured
NoOutput == [kind |-> "none", text |-> <<>>]

\* the call has not returned
NotReturned == [kind |-> "none", text |-> <<>>]

\* char::is_whitespace, as str::trim_start and str::trim_end use it
IsWhitespace(ch) == ch \in {NL, SPACE}

\* ------------------------------------------------------------------ str helpers

Min(S) == CHOOSE m \in S : \A n \in S : m <= n

\* &text[from..]
SliceFrom(text, from) == SubSeq(text, from + 1, Len(text))

\* &text[..to]
SliceTo(text, to) == SubSeq(text, 1, to)

MatchesAt(text, pat, k) ==
    /\ k + Len(pat) <= Len(text)
    /\ SubSeq(text, k + 1, k + Len(pat)) = pat

\* str::find: the offset of the first match, or None
Find(text, pat) ==
    LET hits == {k \in 0..Len(text) : MatchesAt(text, pat, k)}
    IN  IF hits = {} THEN None ELSE Min(hits)

\* str::contains
Contains(text, pat) == Find(text, pat) # None

RECURSIVE Replace(_, _, _)
\* str::replace: every non-overlapping match, left to right
Replace(text, from, to) ==
    LET k == Find(text, from)
    IN  IF k = None
        THEN text
        ELSE SliceTo(text, k) \o to \o Replace(SliceFrom(text, k + Len(from)), from, to)

RECURSIVE TrimStart(_)
\* str::trim_start
TrimStart(text) ==
    IF text # <<>> /\ IsWhitespace(Head(text)) THEN TrimStart(Tail(text)) ELSE text

RECURSIVE TrimEnd(_)
\* str::trim_end
TrimEnd(text) ==
    IF text # <<>> /\ IsWhitespace(text[Len(text)])
    THEN TrimEnd(SubSeq(text, 1, Len(text) - 1))
    ELSE text

\* ------------------------------------------------------------------ the brace scan

\* lines 178-181: the scan's local state before the loop
ScanStart == [brace_count |-> 0, in_string |-> FALSE, escape_next |-> FALSE, end_pos |-> None]

\* ScanByte with the in_string guards of lines 195 and 198 left out: braces
\* inside string literals are counted too.
ScanByteCountsInString(st, ch, at) ==
    IF st.escape_next THEN [st EXCEPT !.escape_next = FALSE]
    ELSE IF ch = BACKSLASH /\ st.in_string THEN [st EXCEPT !.escape_next = TRUE]
    ELSE IF ch = QUOTE THEN [st EXCEPT !.in_string = ~st.in_string]
    ELSE IF ch = LBRACE THEN [st EXCEPT !.brace_count = st.brace_count + 1]
    ELSE IF ch = RBRACE
         THEN IF st.brace_count - 1 = 0
              THEN [st EXCEPT !.brace_count = 0, !.end_pos = at + 1]
              ELSE [st EXCEPT !.brace_count = st.brace_count - 1]
    ELSE st

\* ScanByte without lines 187-190 and 193: a backslash escapes nothing.
ScanByteNoEscape(st, ch, at) ==
    IF ch = QUOTE THEN [st EXCEPT !.in_string = ~st.in_string]
    ELSE IF ch = LBRACE /\ ~st.in_string THEN [st EXCEPT !.brace_count = st.brace_count + 1]
    ELSE IF ch = RBRACE /\ ~st.in_string
         THEN IF st.brace_count - 1 = 0
              THEN [st EXCEPT !.brace_count = 0, !.end_pos = at + 1]
              ELSE [st EXCEPT !.brace_count = st.brace_count - 1]
    ELSE st

\* ScanByte with the test of line 200 left out: every closing brace outside a
\* string literal ends the scan.
ScanByteAnyClose(st, ch, at) ==
    IF st.escape_next THEN [st EXCEPT !.escape_next = FALSE]
    ELSE IF ch = BACKSLASH /\ st.in_string THEN [st EXCEPT !.escape_next = TRUE]
    ELSE IF ch = QUOTE THEN [st EXCEPT !.in_string = ~st.in_string]
    ELSE IF ch = LBRACE /\ ~st.in_string THEN [st EXCEPT !.brace_count = st.brace_count + 1]
    ELSE IF ch = RBRACE /\ ~st.in_string
         THEN [st EXCEPT !.brace_count = st.brace_count - 1, !.end_pos = at + 1]
    ELSE st

\* lines 184-207: one iteration of the loop, on the byte ch at absolute offset at
ScanByte(st, ch, at) ==
    IF st.escape_next THEN [st EXCEPT !.escape_next = FALSE]
    ELSE IF ch = BACKSLASH /\ st.in_string THEN [st EXCEPT !.escape_next = TRUE]
    ELSE IF ch = QUOTE THEN [st EXCEPT !.in_string = ~st.in_string]
    ELSE IF ch = LBRACE /\ ~st.in_string THEN [st EXCEPT !.brace_count = st.brace_count + 1]
    ELSE IF ch = RBRACE /\ ~st.in_string
         THEN IF st.brace_count - 1 = 0
              THEN [st EXCEPT !.brace_count = 0, !.end_pos = at + 1]
              ELSE [st EXCEPT !.brace_count = st.brace_count - 1]
    ELSE st

RECURSIVE ScanLoop(_, _, _, _)
\* lines 183-207: the loop over content[brace_start..], left at the break
ScanLoop(text, brace_start, k, st) ==
    IF k >= Len(text) - brace_start \/ st.end_pos # None
    THEN st
    ELSE ScanLoop(text, brace_start, k + 1,
                  ScanByte(st, text[brace_start + k + 1], brace_start + k))

\* lines 178-207: end_pos when the loop is over
ScanBraces(text, brace_start) == ScanLoop(text, brace_start, 0, ScanStart).end_pos

\* ---- the scan as a process, one byte a step

ScanChars == {LBRACE, RBRACE, QUOTE, BACKSLASH, PLAIN}

RECURSIVE SeqsOfLen(_, _)
SeqsOfLen(S, n) ==
    IF n = 0 THEN {<<>>}
    ELSE {<<c>> \o s : c \in S, s \in SeqsOfLen(S, n - 1)}

SeqsUpTo(S, n) == UNION {SeqsOfLen(S, k) : k \in 0..n}

\* content[brace_start..] starts at the '{' that find('{') found (lines 174-183)
ScanBuffers == {<<LBRACE>> \o s : s \in SeqsUpTo(ScanChars, MaxScanLen - 1)}

PatchIdle ==
    /\ modified = <<>>
    /\ input = <<>>
    /\ applied = "none"
    /\ result = "none"

ScanIdle ==
    /\ bytes = <<>>
    /\ i = 0
    /\ brace_count = 0
    /\ in_string = FALSE
    /\ escape_next = FALSE
    /\ end_pos = None
    /\ scan_pc = "idle"

\* the locals of install_vcpkg before its first statement
InstallLocals(at) ==
    /\ pc = at
    /\ index = 0
    /\ attempt = 0
    /\ retry_last_error = NoError
    /\ last_error = NoError
    /\ clone_success = FALSE
    /\ install_result = NotReturned
    /\ clones = 0
    /\ delays = <<>>
    /\ last_failure = NoError
    /\ bootstraps = 0
    /\ status = "none"
    /\ git = "none"

\* install_vcpkg is not called and nothing is on disk
InstallIdle ==
    /\ InstallLocals("idle")
    /\ vcpkg_root_exists = FALSE
    /\ vcpkg_exe_exists = FALSE

\* install_packages is not called and vcpkg has nothing installed
PackagesIdle ==
    /\ pk_pc = "idle"
    /\ installed = {}
    /\ output = NoOutput
    /\ packages_result = NotReturned
    /\ commands = <<>>
    /\ removal = "none"

\* extract_ffmpeg is not called and the output directory is empty
ExtractIdle ==
    /\ ex_pc = "idle"
    /\ archive = "none"
    /\ target_dir = "absent"
    /\ target_before = "absent"
    /\ temp_exists = FALSE
    /\ temp_entries = {}
    /\ extracted_top_dir = "none"
    /\ extract_result = NotReturned
    /\ fs_log = <<>>

\* main is not running
MainIdle ==
    /\ stage = "idle"
    /\ started = <<>>
    /\ exit_code = None
    /\ addon_result = NotReturned
    /\ run = 1
    /\ previous = "none"

\* a path without a file, and a file with its content
Absent == [exists |-> FALSE, text |-> <<>>]
File(text) == [exists |-> TRUE, text |-> text]

\* prepare_addon_source is not called and none of its files is there
AddonIdle ==
    /\ ad_pc = "idle"
    /\ addon_src_exists = FALSE
    /\ config_h = Absent
    /\ opt_common_c = Absent
    /\ ffmpeg_c = Absent
    /\ target_ffmpeg_c = Absent
    /\ binding_c = Absent
    /\ prepare_result = NotReturned
    /\ writes = <<>>
    /\ ad_run = 1
    /\ opt_done = FALSE

\* the other parts of the program, when one part is run alone
RestIdle == PackagesIdle /\ ExtractIdle /\ MainIdle /\ AddonIdle

InitScan ==
    /\ bytes \in ScanBuffers
    /\ i = 0
    /\ brace_count = ScanStart.brace_count
    /\ in_string = ScanStart.in_string
    /\ escape_next = ScanStart.escape_next
    /\ end_pos = ScanStart.end_pos
    /\ scan_pc = "scan"
    /\ PatchIdle
    /\ InstallIdle
    /\ RestIdle

ScanLocals == [brace_count |-> brace_count, in_string |-> in_string,
               escape_next |-> escape_next, end_pos |-> end_pos]

\* lines 184-207: the loop body on bytes[i]; the break ends the scan
ScanNextByte ==
    /\ scan_pc = "scan"
    /\ i < Len(bytes)
    /\ LET st == ScanByte(ScanLocals, bytes[i + 1], i)
       IN  /\ brace_count' = st.brace_count
           /\ in_string' = st.in_string
           /\ escape_next' = st.escape_next
           /\ end_pos' = st.end_pos
           /\ scan_pc' = IF st.end_pos # None THEN "done" ELSE "scan"
    /\ i' = i + 1
    /\ UNCHANGED <<bytes, patchVars, installVars, packagesVars, extractVars, mainVars, addonVars>>

\* line 207: the iterator is exhausted, end_pos stays None
ScanExhausted ==
    /\ scan_pc = "scan"
    /\ i = Len(bytes)
    /\ scan_pc' = "done"
    /\ UNCHANGED <<bytes, i, brace_count, in_string, escape_next, end_pos, patchVars, installVars, packagesVars, extractVars, mainVars, addonVars>>

NextScan == ScanNextByte \/ ScanExhausted

SpecScan == InitScan /\ [][NextScan]_vars

\* lines 184-207: the for loop is not suspended, it goes on until it is left
SpecScanFair == SpecScan /\ WF_vars(NextScan)

\* ------------------------------------------------------------------ the patch operations

STATIC == "static "
TRANSCODE == "int transcode(Scheduler *sch)"
CLEANUP == "void ffmpeg_cleanup(int ret)"
MAIN == "int main(int argc, char **argv)"
INCLUDE == "#include "
UTILS_H == "ffmpeg_utils.h"
NODE_API_H == "<node_api.h>"
REMOVED == "/*\n * Main function removed for Node.js addon\n * Use ffmpeg_run() instead\n */"
RUN_DOC == "/**\n * Run ffmpeg with arguments (N-API function for Node.js addon) ... */"
RUN_SIG == "napi_value ffmpeg_run"
RUN_PARAMS == "(napi_env env, napi_callback_info info)"

\* line 142: "static int transcode(Scheduler *sch)"
StaticTranscode == <<STATIC, TRANSCODE>>
\* line 143: "static void ffmpeg_cleanup(int ret)"
StaticCleanup == <<STATIC, CLEANUP>>
\* line 172
main_start == <<MAIN>>
\* line 153: #include "ffmpeg_utils.h"
include_marker == <<INCLUDE, QUOTE, UTILS_H, QUOTE>>
\* line 154: #include <node_api.h>
NapiInclude == <<INCLUDE, NODE_API_H>>
\* line 213: the comment that replaces the function, with its line break
RemovedComment == <<REMOVED, NL>>
\* line 229
FfmpegRunSig == <<RUN_SIG>>
\* lines 233-437: the text appended, its body cut to one plain byte in braces
run_function == <<NL, NL, RUN_DOC, NL, RUN_SIG, RUN_PARAMS, NL, LBRACE, PLAIN, RBRACE, NL>>


\* ReplaceTranscode with an empty replacement: the whole signature is dropped.
ReplaceTranscodeDropsSignature(text) == Replace(text, StaticTranscode, <<>>)

\* line 142
ReplaceTranscode(text) == Replace(text, StaticTranscode, <<TRANSCODE>>)

\* line 143
ReplaceCleanup(text) == Replace(text, StaticCleanup, <<CLEANUP>>)

\* remove_main_function that cuts from the opening brace on: the signature stays.
remove_main_function_keeps_signature(text) ==
    LET start_pos == Find(text, main_start)
    IN  IF start_pos = None THEN Ok(text)
        ELSE
        LET func_start == Find(SliceFrom(text, start_pos), <<LBRACE>>)
        IN  IF func_start = None THEN Ok(text)
            ELSE
            LET brace_start == start_pos + func_start
                end == ScanBraces(text, brace_start)
            IN  IF end = None THEN Ok(text)
                ELSE Ok(TrimEnd(SliceTo(text, brace_start))
                          \o RemovedComment
                          \o TrimStart(SliceFrom(text, end)))

\* lines 171-224
remove_main_function(text) ==
    LET start_pos == Find(text, main_start)
    IN  IF start_pos = None THEN Ok(text)
        ELSE
        LET func_start == Find(SliceFrom(text, start_pos), <<LBRACE>>)
        IN  IF func_start = None THEN Ok(text)
            ELSE
            LET brace_start == start_pos + func_start
                end == ScanBraces(text, brace_start)
            IN  IF end = None THEN Ok(text)
                ELSE Ok(TrimEnd(SliceTo(text, start_pos))
                          \o RemovedComment
                          \o TrimStart(SliceFrom(text, end)))

\* add_napi_include without the early return of lines 154-156.
add_napi_include_unguarded(text) ==
    LET pos == Find(text, include_marker)
    IN  IF pos # None
        THEN LET insert_pos == pos + Len(include_marker)
             IN  Ok(SliceTo(text, insert_pos) \o <<NL>> \o NapiInclude \o <<NL>>
                      \o SliceFrom(text, insert_pos))
        ELSE Ok(text)

\* lines 152-168
add_napi_include(text) ==
    IF Contains(text, NapiInclude) THEN Ok(text)
    ELSE
    LET pos == Find(text, include_marker)
    IN  IF pos # None
        THEN LET insert_pos == pos + Len(include_marker)
             IN  Ok(SliceTo(text, insert_pos) \o <<NL>> \o NapiInclude \o <<NL>>
                      \o SliceFrom(text, insert_pos))
        ELSE Ok(text)

\* lines 227-231 and 439
add_ffmpeg_run_function(text) ==
    IF Contains(text, FfmpegRunSig) THEN Ok(text)
    ELSE Ok(text \o run_function)

\* lines 139-149; each ? returns the error of the step that failed
modify_ffmpeg_c_content(text) ==
    LET m1 == ReplaceTranscode(text)
        m2 == ReplaceCleanup(m1)
        r3 == remove_main_function(m2)
    IN  IF r3.kind = "Err" THEN r3
        ELSE LET r4 == add_napi_include(r3.text)
             IN  IF r4.kind = "Err" THEN r4
                 ELSE add_ffmpeg_run_function(r4.text)

\* ---- the operations applied to source texts

RECURSIVE Flatten(_)
Flatten(pieces) ==
    IF pieces = <<>> THEN <<>> ELSE Head(pieces) \o Flatten(Tail(pieces))

\* the texts made of at most MaxPieces fragments out of P
TextsOf(P) == {Flatten(ps) : ps \in SeqsUpTo(P, MaxPieces)}

\* fragments around the two signatures whose storage class is dropped
VisibilityPieces == {<<STATIC>>, <<TRANSCODE>>, <<CLEANUP>>, <<PLAIN>>}

\* fragments around main()
MainPieces == {<<MAIN>>, <<MAIN, NL, LBRACE>>, <<LBRACE>>, <<RBRACE>>, <<QUOTE>>, <<NL>>, <<PLAIN>>}

\* fragments around the include directives and ffmpeg_run
InsertPieces == {include_marker, NapiInclude, FfmpegRunSig, <<INCLUDE>>, <<PLAIN>>}

\* fragments of a whole fftools/ffmpeg.c
FilePieces == {include_marker \o <<NL>>,
               StaticTranscode \o <<LBRACE, RBRACE, NL>>,
               StaticCleanup \o <<LBRACE, RBRACE, NL>>,
               <<MAIN, NL, LBRACE, RBRACE, NL>>,
               <<PLAIN, NL>>}

\* line 130: what read_to_string may return
SourceTexts ==
    TextsOf(VisibilityPieces) \cup TextsOf(MainPieces)
        \cup TextsOf(InsertPieces) \cup TextsOf(FilePieces)

InitPatch ==
    /\ modified \in SourceTexts
    /\ input = <<>>
    /\ applied = "none"
    /\ result = "none"
    /\ ScanIdle
    /\ InstallIdle
    /\ RestIdle

\* one operation `op`, with outcome r, applied to the text at hand; a behaviour
\* applies one operation to a text, then to what it returned, and so on
Apply(op, r) ==
    /\ applied \in {"none", op}
    /\ applied' = op
    /\ input' = modified
    /\ result' = r.kind
    /\ modified' = IF r.kind = "Ok" THEN r.text ELSE modified
    /\ UNCHANGED <<scanVars, installVars, packagesVars, extractVars, mainVars, addonVars>>

ApplyReplaceTranscode == Apply("replace_transcode", Ok(ReplaceTranscode(modified)))

ApplyReplaceCleanup == Apply("replace_cleanup", Ok(ReplaceCleanup(modified)))

ApplyRemoveMainFunction == Apply("remove_main_function", remove_main_function(modified))

ApplyAddNapiInclude == Apply("add_napi_include", add_napi_include(modified))

ApplyAddFfmpegRunFunction == Apply("add_ffmpeg_run_function", add_ffmpeg_run_function(modified))

ApplyModifyFfmpegCContent == Apply("modify_ffmpeg_c_content", modify_ffmpeg_c_content(modified))

NextPatch ==
    \/ ApplyReplaceTranscode
    \/ ApplyReplaceCleanup
    \/ ApplyRemoveMainFunction
    \/ ApplyAddNapiInclude
    \/ ApplyAddFfmpegRunFunction
    \/ ApplyModifyFfmpegCContent

SpecPatch == InitPatch /\ [][NextPatch]_vars

\* ------------------------------------------------------------------ install_vcpkg

\* lines 144-148
mirrors == <<"https://github.com/Microsoft/vcpkg.git",
             "https://gitee.com/mirrors/vcpkg.git",
             "https://github.com.cnpmjs.org/Microsoft/vcpkg.git">>

\* line 158: git_clone_with_retry(url, 3)
max_retries == 3

\* line 82: (attempt * 2) seconds
BackoffFactor == 2

\* git_clone_with_retry that gives up on a mirror one attempt early
AttemptsUsedUpEarly(n) == n > max_retries - 1

\* line 74: for attempt in 1..=max_retries
AttemptsUsedUp(n) == n > max_retries

\* wait_seconds that sleeps the same time before every retry
wait_seconds_flat(n) == IF n > 1 THEN BackoffFactor ELSE 0

\* wait_seconds counting down: the wait shortens attempt by attempt.
wait_seconds_shrinking(n) == IF n > 1 THEN (max_retries + 2 - n) * BackoffFactor ELSE 0

\* lines 81-85: the seconds slept before attempt n, none before the first
wait_seconds(n) == IF n > 1 THEN n * BackoffFactor ELSE 0

\* lines 108 and 113: what an unsuccessful clone leaves in last_error
CloneFailures ==
    {<<"git clone failed: ", e>> : e \in 1..NumStderr} \cup {<<"git command error: ", "io">>}

\* line 119: the error of git_clone_with_retry
AllAttemptsFailed(n, e) ==
    <<"all attempts failed, last error: ", n, IF e = NoError THEN <<"unknown error">> ELSE e>>

\* line 177: the error of install_vcpkg
AllMirrorsFailed(e) ==
    <<"all mirrors failed, last error: ", IF e = NoError THEN <<"unknown error">> ELSE e>>

\* MirrorError that keeps the error of the first mirror that failed.
MirrorErrorKeepsFirst(old, e) == IF old = NoError THEN e ELSE old

\* line 164: last_error = Some(e)
MirrorError(old, e) == e

\* Verified that takes the exit status of the script for the executable.
VerifiedUnchecked(exists) == Ok(<<>>)

\* lines 207-212: the result once the bootstrap script has succeeded
Verified(exists) ==
    IF ~exists
    THEN Err(<<"vcpkg executable was not generated, bootstrap may have failed">>)
    ELSE Ok(<<>>)

\* what the file system may hold when install_vcpkg is called
InitInstall ==
    /\ pc = "install_vcpkg"
    /\ index = 0
    /\ attempt = 0
    /\ retry_last_error = NoError
    /\ last_error = NoError
    /\ clone_success = FALSE
    /\ vcpkg_root_exists \in BOOLEAN
    /\ vcpkg_exe_exists \in BOOLEAN
    /\ vcpkg_exe_exists => vcpkg_root_exists
    /\ install_result = NotReturned
    /\ clones = 0
    /\ delays = <<>>
    /\ last_failure = NoError
    /\ bootstraps = 0
    /\ status = "none"
    /\ git = "none"
    /\ ScanIdle
    /\ PatchIdle
    /\ RestIdle

Return(r) ==
    /\ install_result' = r
    /\ pc' = "done"

\* is_installed that never finds the executable
is_installed_never(exe) == FALSE

\* lines 47-49: the executable exists
is_installed(exe) == exe

\* lines 124-127
CheckInstalled ==
    /\ pc = "install_vcpkg"
    /\ IF is_installed(vcpkg_exe_exists)
       THEN Return(Ok(<<>>))
       ELSE pc' = "check_git" /\ UNCHANGED install_result
    /\ UNCHANGED <<index, attempt, retry_last_error, last_error, clone_success,
                   vcpkg_root_exists, vcpkg_exe_exists, clones, delays, last_failure, bootstraps, status, git>>
    /\ UNCHANGED <<scanVars, patchVars, packagesVars, extractVars, mainVars, addonVars>>

\* check_git that takes any end of `git --version` for success
check_git_unchecked(outcome) == Ok(<<>>)

\* lines 58-68: `git --version` cannot be run, exits non-zero, or succeeds
check_git(outcome) ==
    CASE outcome = "io error" -> Err(<<"io error">>)
      [] outcome = "non-zero" -> Err(<<"git is not installed or not in PATH, please install git first">>)
      [] OTHER -> Ok(<<>>)

\* line 130: check_git()?
CheckGit ==
    /\ pc = "check_git"
    /\ git' \in {"io error", "non-zero", "success"}
    /\ IF check_git(git').kind = "Err"
       THEN Return(check_git(git'))
       ELSE pc' = "clean" /\ UNCHANGED install_result
    /\ UNCHANGED <<index, attempt, retry_last_error, last_error, clone_success,
                   vcpkg_root_exists, vcpkg_exe_exists, clones, delays, last_failure, bootstraps, status>>
    /\ UNCHANGED <<scanVars, patchVars, packagesVars, extractVars, mainVars, addonVars>>

\* lines 134-141: remove an existing vcpkg_root, create its parent; either may fail
CleanExisting ==
    /\ pc = "clean"
    /\ \/ /\ vcpkg_root_exists
          /\ Return(Err(<<"remove_dir_all failed">>))
          /\ UNCHANGED <<vcpkg_root_exists, vcpkg_exe_exists>>
       \/ /\ Return(Err(<<"create_dir_all failed">>))
          /\ vcpkg_root_exists' = FALSE
          /\ vcpkg_exe_exists' = FALSE
       \/ /\ pc' = "mirrors"
          /\ vcpkg_root_exists' = FALSE
          /\ vcpkg_exe_exists' = FALSE
          /\ UNCHANGED install_result
    /\ UNCHANGED <<index, attempt, retry_last_error, last_error, clone_success,
                   clones, delays, last_failure, bootstraps, status, git>>
    /\ UNCHANGED <<scanVars, patchVars, packagesVars, extractVars, mainVars, addonVars>>

\* lines 153-158 and 72: the next mirror, if any, is handed to git_clone_with_retry
NextMirror ==
    /\ pc = "mirrors"
    /\ IF index < Len(mirrors)
       THEN /\ pc' = "attempts"
            /\ attempt' = 1
            /\ retry_last_error' = NoError
       ELSE /\ pc' = "cloned"
            /\ UNCHANGED <<attempt, retry_last_error>>
    /\ UNCHANGED <<index, last_error, clone_success, vcpkg_root_exists, vcpkg_exe_exists,
                   install_result, clones, delays, last_failure, bootstraps, status, git>>
    /\ UNCHANGED <<scanVars, patchVars, packagesVars, extractVars, mainVars, addonVars>>

\* lines 74-85: before attempt 2 and later, the directory of the failed clone
\* is removed (a failure of the removal is dropped) and the thread sleeps
PrepareAttempt ==
    /\ pc = "attempts"
    /\ ~AttemptsUsedUp(attempt)
    /\ pc' = "clone"
    /\ IF attempt > 1 /\ vcpkg_root_exists
       THEN vcpkg_root_exists' \in BOOLEAN
       ELSE UNCHANGED vcpkg_root_exists
    /\ delays' = Append(delays, [mirror |-> index, attempt |-> attempt,
                                 seconds |-> wait_seconds(attempt)])
    /\ UNCHANGED <<index, attempt, retry_last_error, last_error, clone_success,
                   vcpkg_exe_exists, install_result, clones, last_failure, bootstraps, status, git>>
    /\ UNCHANGED <<scanVars, patchVars, packagesVars, extractVars, mainVars, addonVars>>

\* lines 90-116: git clone --depth 1 url vcpkg_root
GitClone ==
    /\ pc = "clone"
    /\ clones' = clones + 1
    /\ \/ /\ clone_success' = TRUE
          /\ vcpkg_root_exists' = TRUE
          /\ pc' = "cloned"
          /\ UNCHANGED <<attempt, retry_last_error, last_failure>>
       \/ \E e \in CloneFailures :
             /\ retry_last_error' = e
             /\ last_failure' = e
             /\ vcpkg_root_exists' \in (IF vcpkg_root_exists THEN {TRUE} ELSE BOOLEAN)
             /\ attempt' = attempt + 1
             /\ pc' = "attempts"
             /\ UNCHANGED clone_success
    /\ UNCHANGED <<index, last_error, vcpkg_exe_exists, install_result, delays, bootstraps, status, git>>
    /\ UNCHANGED <<scanVars, patchVars, packagesVars, extractVars, mainVars, addonVars>>

\* lines 119 and 163-172: the attempts on this mirror are used up; the error is
\* kept, and before another mirror the failed clone is removed
MirrorFailed ==
    /\ pc = "attempts"
    /\ AttemptsUsedUp(attempt)
    /\ last_error' = MirrorError(last_error, AllAttemptsFailed(max_retries, retry_last_error))
    /\ IF index < Len(mirrors) - 1 /\ vcpkg_root_exists
       THEN vcpkg_root_exists' \in BOOLEAN
       ELSE UNCHANGED vcpkg_root_exists
    /\ index' = index + 1
    /\ pc' = "mirrors"
    /\ UNCHANGED <<attempt, retry_last_error, clone_success, vcpkg_exe_exists,
                   install_result, clones, delays, last_failure, bootstraps, status, git>>
    /\ UNCHANGED <<scanVars, patchVars, packagesVars, extractVars, mainVars, addonVars>>

\* lines 176-179
AfterMirrors ==
    /\ pc = "cloned"
    /\ IF ~clone_success
       THEN Return(Err(AllMirrorsFailed(last_error)))
       ELSE pc' = "bootstrap" /\ UNCHANGED install_result
    /\ UNCHANGED <<index, attempt, retry_last_error, last_error, clone_success,
                   vcpkg_root_exists, vcpkg_exe_exists, clones, delays, last_failure, bootstraps, status, git>>
    /\ UNCHANGED <<scanVars, patchVars, packagesVars, extractVars, mainVars, addonVars>>

\* lines 181-205: the bootstrap script cannot be run, fails, or succeeds; a
\* script that ran may have built the executable
Bootstrap ==
    /\ pc = "bootstrap"
    /\ bootstraps' = bootstraps + 1
    /\ \/ /\ status' = "io error"
          /\ Return(Err(<<"io error">>))
          /\ UNCHANGED vcpkg_exe_exists
       \/ /\ status' = "non-zero"
          /\ Return(Err(<<"vcpkg bootstrap failed">>))
          /\ vcpkg_exe_exists' \in BOOLEAN
       \/ /\ status' = "success"
          /\ pc' = "verify"
          /\ vcpkg_exe_exists' \in BOOLEAN
          /\ UNCHANGED install_result
    /\ UNCHANGED <<index, attempt, retry_last_error, last_error, clone_success,
                   vcpkg_root_exists, clones, delays, last_failure, git>>
    /\ UNCHANGED <<scanVars, patchVars, packagesVars, extractVars, mainVars, addonVars>>

\* lines 207-212
VerifyExecutable ==
    /\ pc = "verify"
    /\ Return(Verified(vcpkg_exe_exists))
    /\ UNCHANGED <<index, attempt, retry_last_error, last_error, clone_success,
                   vcpkg_root_exists, vcpkg_exe_exists, clones, delays, last_failure, bootstraps, status, git>>
    /\ UNCHANGED <<scanVars, patchVars, packagesVars, extractVars, mainVars, addonVars>>

Next ==
    \/ CheckInstalled
    \/ CheckGit
    \/ CleanExisting
    \/ NextMirror
    \/ PrepareAttempt
    \/ GitClone
    \/ MirrorFailed
    \/ AfterMirrors
    \/ Bootstrap
    \/ VerifyExecutable

Spec == InitInstall /\ [][Next]_vars

\* ------------------------------------------------------------------ install_packages

\* lines 226, 267: the package name looked for in the listing
ffmpeg == <<"ffmpeg">>

\* line 34: the triplet of the platform, here Linux
triplet == <<"x64-linux">>

\* the triplets vcpkg may have installed packages for: the target, one whose name
\* starts with the target's, and an unrelated one
Triplets == {triplet, triplet \o <<"-dynamic">>, <<"arm64-linux">>}

\* line 247
required_features == <<"x264", "x265", "vpx">>

\* the features as `vcpkg list` orders them
FeatureOrder == <<"ffmpeg", "vpx", "x264", "x265">>

\* the ffmpeg installations vcpkg may hold, and another package that has a feature
\* named ffmpeg
FfmpegEntries ==
    [name : {"ffmpeg"}, features : SUBSET {"x264", "x265", "vpx"}, triplet : Triplets]
OpencvEntry == [name |-> "opencv", features |-> {"ffmpeg"}, triplet |-> triplet]

\* vcpkg holds at most one installation of a package per triplet
Registries ==
    {{e \in FfmpegEntries : e.triplet \in ts /\ e.features = fs[e.triplet]} \cup o :
        ts \in SUBSET Triplets,
        fs \in [Triplets -> SUBSET {"x264", "x265", "vpx"}],
        o \in {{}, {OpencvEntry}}}

\* the line `vcpkg list` prints for a package and for one of its features
PackageLine(e) == <<e.name, ":">> \o e.triplet \o <<NL>>
FeatureLine(e, f) == <<e.name, "[", f, "]", ":">> \o e.triplet \o <<NL>>

RECURSIVE FeatureLines(_, _)
FeatureLines(e, fs) ==
    IF fs = <<>> THEN <<>>
    ELSE (IF Head(fs) \in e.features THEN FeatureLine(e, Head(fs)) ELSE <<>>)
         \o FeatureLines(e, Tail(fs))

RECURSIVE Listing(_)
\* the standard output of `vcpkg list ffmpeg`: the lines of the installed packages
\* whose name or feature matches ffmpeg
Listing(r) ==
    IF r = {} THEN <<>>
    ELSE LET e == CHOOSE x \in r : TRUE
         IN  (IF e.name = "ffmpeg" THEN PackageLine(e) ELSE <<>>)
             \o FeatureLines(e, FeatureOrder) \o Listing(r \ {e})

\* lines 217-220, 260-263: the command cannot be run, exits non-zero, or lists
ListOutputs(r) ==
    { [kind |-> "io error", text |-> <<>>],
      [kind |-> "non-zero", text |-> <<>>],
      [kind |-> "success", text |-> Listing(r)] }

\* lines 225, 265: the package and the triplet both occur in the output
ListsPackage(out) ==
    /\ out.kind = "success"
    /\ Contains(out.text, ffmpeg)
    /\ Contains(out.text, triplet)

\* lines 216-233
is_ffmpeg_with_features(out, features) ==
    IF ListsPackage(out)
    THEN \A k \in 1..Len(features) : Contains(out.text, <<features[k]>>)
    ELSE FALSE

\* the vcpkg commands of lines 217-219 and 260-261, 270-274, 293-297
ListCommand == <<"list", "ffmpeg">>
RemoveCommand == <<"remove", "ffmpeg", ":">> \o triplet
InstallCommand ==
    <<"install", "ffmpeg", "[", "x264", ",", "x265", ",", "vpx", "]", ":">> \o triplet

\* install_packages that goes on to the listing whatever the check said
AfterFeatureCheckAlwaysLists(ok) == "list"

\* lines 250-258: return when the features are there, else look at what is installed
AfterFeatureCheck(ok) == IF ok THEN "done" ELSE "list"

\* install_packages that installs whatever the removal's exit status
AfterRemoveIgnoresStatus(st) == "install"

\* lines 279-281: a removal that exits non-zero ends install_packages
AfterRemove(st) == IF st # "success" THEN "done" ELSE "install"

\* the packages installed when install_packages is called
InitPackages ==
    /\ pk_pc = "install_packages"
    /\ installed \in Registries
    /\ output = NoOutput
    /\ packages_result = NotReturned
    /\ commands = <<>>
    /\ removal = "none"
    /\ InstallLocals("idle")
    /\ vcpkg_root_exists \in BOOLEAN
    /\ vcpkg_exe_exists \in BOOLEAN
    /\ vcpkg_exe_exists => vcpkg_root_exists
    /\ ScanIdle
    /\ PatchIdle
    /\ ExtractIdle
    /\ MainIdle
    /\ AddonIdle

ReturnPackages(r) ==
    /\ packages_result' = r
    /\ pk_pc' = "done"

PackagesRest == <<scanVars, patchVars, installVars, extractVars, mainVars, addonVars>>

\* lines 239-241
CheckVcpkgInstalled ==
    /\ pk_pc = "install_packages"
    /\ IF ~is_installed(vcpkg_exe_exists)
       THEN ReturnPackages(Err(<<"vcpkg is not installed, call install_vcpkg() first">>))
       ELSE pk_pc' = "features" /\ UNCHANGED packages_result
    /\ UNCHANGED <<installed, output, commands, removal, PackagesRest>>

\* lines 250-256: is_ffmpeg_with_features runs `vcpkg list ffmpeg`
FeatureCheck ==
    /\ pk_pc = "features"
    /\ commands' = Append(commands, ListCommand)
    /\ output' \in ListOutputs(installed)
    /\ IF AfterFeatureCheck(is_ffmpeg_with_features(output', required_features)) = "done"
       THEN ReturnPackages(Ok(<<>>))
       ELSE pk_pc' = "list" /\ UNCHANGED packages_result
    /\ UNCHANGED <<installed, removal, PackagesRest>>

\* lines 260-266: the second `vcpkg list ffmpeg`
ListExisting ==
    /\ pk_pc = "list"
    /\ commands' = Append(commands, ListCommand)
    /\ output' \in ListOutputs(installed)
    /\ pk_pc' = IF ListsPackage(output') THEN "remove" ELSE "install"
    /\ UNCHANGED <<installed, packages_result, removal, PackagesRest>>

\* lines 268-283: `vcpkg remove ffmpeg:<triplet>`
RemoveExisting ==
    /\ pk_pc = "remove"
    /\ commands' = Append(commands, RemoveCommand)
    /\ removal' \in {"io error", "non-zero", "success"}
    /\ installed' = IF removal' = "success"
                    THEN {e \in installed : ~(e.name = "ffmpeg" /\ e.triplet = triplet)}
                    ELSE installed
    /\ IF removal' = "io error"
       THEN ReturnPackages(Err(<<"io error">>))
       ELSE IF AfterRemove(removal') = "done"
       THEN ReturnPackages(Err(<<"Failed to remove existing ffmpeg package">>))
       ELSE pk_pc' = "install" /\ UNCHANGED packages_result
    /\ UNCHANGED <<output, PackagesRest>>

\* lines 293-308: `vcpkg install ffmpeg[x264,x265,vpx]:<triplet>`
InstallFfmpeg ==
    /\ pk_pc = "install"
    /\ commands' = Append(commands, InstallCommand)
    /\ \/ /\ ReturnPackages(Err(<<"io error">>))
          /\ UNCHANGED installed
       \/ /\ ReturnPackages(Err(<<"ffmpeg installation failed">>))
          /\ UNCHANGED installed
       \/ /\ ReturnPackages(Ok(<<>>))
          /\ installed' =
                {e \in installed : ~(e.name = "ffmpeg" /\ e.triplet = triplet)}
                \cup {[name |-> "ffmpeg", features |-> {"x264", "x265", "vpx"},
                       triplet |-> triplet]}
    /\ UNCHANGED <<output, removal, PackagesRest>>

NextPackages ==
    \/ CheckVcpkgInstalled
    \/ FeatureCheck
    \/ ListExisting
    \/ RemoveExisting
    \/ InstallFfmpeg

SpecPackages == InitPackages /\ [][NextPackages]_vars

\* ------------------------------------------------------------------ extract_ffmpeg

\* the downloads directory: missing, without an ffmpeg archive, or with an archive
\* that has a single top-level directory, two of them, or files only
Archives == {"missing", "none", "single", "double", "flat"}

\* the top-level directories an archive unpacks to
TopDirs(a) ==
    CASE a = "single" -> {"ffmpeg-src"}
      [] a = "double" -> {"ffmpeg-src", "doc"}
      [] OTHER -> {}

\* is_ffmpeg_extracted that never finds the directory
is_ffmpeg_extracted_never(t) == FALSE

\* lines 322-331: output/ffmpeg exists and is a directory
is_ffmpeg_extracted(t) == t \notin {"absent", "file"}

\* find_ffmpeg_archive that returns a path whatever the downloads directory holds
find_ffmpeg_archive_any(a) == a

\* lines 344-362: an archive named ffmpeg*.tar.gz in the downloads directory
find_ffmpeg_archive(a) == IF a \in {"missing", "none"} THEN "None" ELSE a

\* extract_ffmpeg that goes on to the rename without a directory
AfterTopLevelGoesOn(dir) == "clean_target"

\* lines 407-413: without a top-level directory extract_ffmpeg ends
AfterTopLevel(dir) == IF dir = "none" THEN "done" ELSE "clean_target"

\* the output directory and the downloads directory when extract_ffmpeg is called
InitFiles ==
    /\ archive \in Archives
    /\ target_dir \in {"absent", "file", "old"}
    /\ target_before = target_dir
    /\ temp_exists \in BOOLEAN
    /\ temp_entries = {}
    /\ extracted_top_dir = "none"
    /\ extract_result = NotReturned
    /\ fs_log = <<>>

InitExtract ==
    /\ ex_pc = "extract_ffmpeg"
    /\ InitFiles
    /\ ScanIdle
    /\ PatchIdle
    /\ InstallIdle
    /\ PackagesIdle
    /\ MainIdle
    /\ AddonIdle

ReturnExtract(r) ==
    /\ extract_result' = r
    /\ ex_pc' = "done"

ExtractRest == <<scanVars, patchVars, installVars, packagesVars, mainVars, addonVars>>

\* lines 366-370
AlreadyExtracted ==
    /\ ex_pc = "extract_ffmpeg"
    /\ IF is_ffmpeg_extracted(target_dir)
       THEN ReturnExtract(Ok(<<>>))
       ELSE ex_pc' = "find" /\ UNCHANGED extract_result
    /\ UNCHANGED <<archive, target_dir, target_before, temp_exists, temp_entries,
                   extracted_top_dir, fs_log, ExtractRest>>

\* lines 372-377
FindArchive ==
    /\ ex_pc = "find"
    /\ IF find_ffmpeg_archive(archive) = "None"
       THEN ReturnExtract(Err(<<"ffmpeg tar.gz file not found, please install ffmpeg package first">>))
       ELSE ex_pc' = "clean_temp" /\ UNCHANGED extract_result
    /\ UNCHANGED <<archive, target_dir, target_before, temp_exists, temp_entries,
                   extracted_top_dir, fs_log, ExtractRest>>

\* lines 383-385: a staging directory left behind is removed, or cannot be
CleanStaging ==
    /\ ex_pc = "clean_temp"
    /\ \/ /\ ~temp_exists
          /\ ex_pc' = "create_temp"
          /\ UNCHANGED <<temp_exists, extract_result, fs_log>>
       \/ /\ temp_exists
          /\ ReturnExtract(Err(<<"io error">>))
          /\ UNCHANGED <<temp_exists, fs_log>>
       \/ /\ temp_exists
          /\ temp_exists' = FALSE
          /\ fs_log' = Append(fs_log, "remove staging")
          /\ ex_pc' = "create_temp"
          /\ UNCHANGED extract_result
    /\ UNCHANGED <<archive, target_dir, target_before, temp_entries,
                   extracted_top_dir, ExtractRest>>

\* line 386
CreateStaging ==
    /\ ex_pc = "create_temp"
    /\ \/ /\ ReturnExtract(Err(<<"io error">>))
          /\ UNCHANGED <<temp_exists, fs_log>>
       \/ /\ temp_exists' = TRUE
          /\ fs_log' = Append(fs_log, "create staging")
          /\ ex_pc' = "open"
          /\ UNCHANGED extract_result
    /\ UNCHANGED <<archive, target_dir, target_before, temp_entries,
                   extracted_top_dir, ExtractRest>>

\* lines 389-391
OpenArchive ==
    /\ ex_pc = "open"
    /\ \/ ReturnExtract(Err(<<"io error">>))
       \/ ex_pc' = "unpack" /\ UNCHANGED extract_result
    /\ UNCHANGED <<archive, target_dir, target_before, temp_exists, temp_entries,
                   extracted_top_dir, fs_log, ExtractRest>>

\* line 393: an unpack that fails may have written part of the archive
Unpack ==
    /\ ex_pc = "unpack"
    /\ \/ /\ ReturnExtract(Err(<<"io error">>))
          /\ temp_entries' \in SUBSET TopDirs(archive)
          /\ UNCHANGED fs_log
       \/ /\ temp_entries' = TopDirs(archive)
          /\ fs_log' = Append(fs_log, "unpack")
          /\ ex_pc' = "top"
          /\ UNCHANGED extract_result
    /\ UNCHANGED <<archive, target_dir, target_before, temp_exists,
                   extracted_top_dir, ExtractRest>>

\* lines 395-413: the first directory read_dir yields, if it yields one; without
\* one the staging directory is removed, or cannot be
FindTopLevel ==
    /\ ex_pc = "top"
    /\ extracted_top_dir' \in temp_entries \cup {"none"}
    /\ temp_entries = {} => extracted_top_dir' = "none"
    /\ IF AfterTopLevel(extracted_top_dir') = "done"
       THEN \/ /\ ReturnExtract(Err(<<"io error">>))
               /\ UNCHANGED <<temp_exists, temp_entries, fs_log>>
            \/ /\ ReturnExtract(Err(<<"Top-level directory not found after extraction">>))
               /\ temp_exists' = FALSE
               /\ temp_entries' = {}
               /\ fs_log' = Append(fs_log, "remove staging")
       ELSE /\ ex_pc' = "clean_target"
            /\ UNCHANGED <<extract_result, temp_exists, temp_entries, fs_log>>
    /\ UNCHANGED <<archive, target_dir, target_before, ExtractRest>>

\* lines 415-419: what is at output/ffmpeg is removed, or cannot be
CleanTarget ==
    /\ ex_pc = "clean_target"
    /\ \/ /\ target_dir = "absent"
          /\ ex_pc' = "rename"
          /\ UNCHANGED <<target_dir, extract_result, fs_log>>
       \/ /\ target_dir # "absent"
          /\ ReturnExtract(Err(<<"io error">>))
          /\ UNCHANGED <<target_dir, fs_log>>
       \/ /\ target_dir # "absent"
          /\ target_dir' = "absent"
          /\ fs_log' = Append(fs_log, "remove target")
          /\ ex_pc' = "rename"
          /\ UNCHANGED extract_result
    /\ UNCHANGED <<archive, target_before, temp_exists, temp_entries,
                   extracted_top_dir, ExtractRest>>

\* line 421
Rename ==
    /\ ex_pc = "rename"
    /\ \/ /\ ReturnExtract(Err(<<"io error">>))
          /\ UNCHANGED <<target_dir, temp_entries, fs_log>>
       \/ /\ target_dir' = extracted_top_dir
          /\ temp_entries' = temp_entries \ {extracted_top_dir}
          /\ fs_log' = Append(fs_log, "rename")
          /\ ex_pc' = "cleanup"
          /\ UNCHANGED extract_result
    /\ UNCHANGED <<archive, target_before, temp_exists, extracted_top_dir, ExtractRest>>

\* lines 423-428
Cleanup ==
    /\ ex_pc = "cleanup"
    /\ \/ /\ ~temp_exists
          /\ ReturnExtract(Ok(<<>>))
          /\ UNCHANGED <<temp_exists, temp_entries, fs_log>>
       \/ /\ temp_exists
          /\ ReturnExtract(Err(<<"io error">>))
          /\ UNCHANGED <<temp_exists, temp_entries, fs_log>>
       \/ /\ temp_exists
          /\ ReturnExtract(Ok(<<>>))
          /\ temp_exists' = FALSE
          /\ temp_entries' = {}
          /\ fs_log' = Append(fs_log, "remove staging")
    /\ UNCHANGED <<archive, target_dir, target_before, extracted_top_dir, ExtractRest>>

NextExtract ==
    \/ AlreadyExtracted
    \/ FindArchive
    \/ CleanStaging
    \/ CreateStaging
    \/ OpenArchive
    \/ Unpack
    \/ FindTopLevel
    \/ CleanTarget
    \/ Rename
    \/ Cleanup

SpecExtract == InitExtract /\ [][NextExtract]_vars

\* ------------------------------------------------------------------ main

\* main.rs 13, 22, 31, 50: the calls main makes, in the order it makes them
Stages == <<"install_vcpkg", "install_packages", "extract_ffmpeg", "prepare_addon_source">>

\* main that goes on to the next call whatever was returned
AfterStageIgnoresErr(r, next) == next

\* main.rs 13-19, 22-28, 31-37: Err ends the process, Ok goes on to the next call
AfterStage(r, next) == IF r.kind = "Err" THEN "exited" ELSE next

\* main.rs 15-18, 24-27, 33-36, 52-55: std::process::exit(1); main.rs 64: main returns
ExitCode(r) == IF r.kind = "Err" THEN 1 ELSE 0

\* what vcpkg may have installed when main is run: nothing, ffmpeg for the target
\* without a feature or with all of them, ffmpeg for another triplet
MainRegistries ==
    { {},
      {[name |-> "ffmpeg", features |-> {"x264"}, triplet |-> triplet]},
      {[name |-> "ffmpeg", features |-> {"x264", "x265", "vpx"}, triplet |-> triplet]},
      {[name |-> "ffmpeg", features |-> {"x264", "x265", "vpx"},
        triplet |-> <<"arm64-linux">>]} }

\* main.rs 7-13: the first run; the archive is what the downloads directory holds
\* by the time extract_ffmpeg looks for it
InitMain ==
    /\ stage = "install_vcpkg"
    /\ started = <<"install_vcpkg">>
    /\ exit_code = None
    /\ addon_result = NotReturned
    /\ run = 1
    /\ previous = "none"
    /\ InstallLocals("install_vcpkg")
    /\ vcpkg_root_exists \in BOOLEAN
    /\ vcpkg_exe_exists \in BOOLEAN
    /\ vcpkg_exe_exists => vcpkg_root_exists
    /\ pk_pc = "idle"
    /\ installed \in MainRegistries
    /\ output = NoOutput
    /\ packages_result = NotReturned
    /\ commands = <<>>
    /\ removal = "none"
    /\ ex_pc = "idle"
    /\ InitFiles
    /\ archive \in {"none", "single", "flat"}
    /\ ~temp_exists
    /\ ScanIdle
    /\ PatchIdle
    /\ AddonIdle

\* the process ends with the exit code
Exit(code) ==
    /\ stage' = "exited"
    /\ exit_code' = code
    /\ UNCHANGED started

\* the next call of main begins
Start(next) ==
    /\ stage' = next
    /\ started' = Append(started, next)
    /\ UNCHANGED exit_code

\* main.rs 13-22: install_vcpkg has returned
AfterInstallVcpkg ==
    /\ stage = "install_vcpkg"
    /\ pc = "done"
    /\ IF AfterStage(install_result, "install_packages") = "exited"
       THEN Exit(ExitCode(install_result)) /\ UNCHANGED pk_pc
       ELSE Start("install_packages") /\ pk_pc' = "install_packages"
    /\ UNCHANGED <<installed, output, packages_result, commands, removal>>
    /\ UNCHANGED <<addon_result, run, previous>>
    /\ UNCHANGED <<scanVars, patchVars, installVars, extractVars, addonVars>>

\* main.rs 22-31: install_packages has returned
AfterInstallPackages ==
    /\ stage = "install_packages"
    /\ pk_pc = "done"
    /\ IF AfterStage(packages_result, "extract_ffmpeg") = "exited"
       THEN Exit(ExitCode(packages_result)) /\ UNCHANGED ex_pc
       ELSE Start("extract_ffmpeg") /\ ex_pc' = "extract_ffmpeg"
    /\ UNCHANGED <<archive, target_dir, target_before, temp_exists, temp_entries,
                   extracted_top_dir, extract_result, fs_log>>
    /\ UNCHANGED <<addon_result, run, previous>>
    /\ UNCHANGED <<scanVars, patchVars, installVars, packagesVars, addonVars>>

\* main.rs 31-49: extract_ffmpeg has returned
AfterExtractFfmpeg ==
    /\ stage = "extract_ffmpeg"
    /\ ex_pc = "done"
    /\ IF AfterStage(extract_result, "prepare_addon_source") = "exited"
       THEN Exit(ExitCode(extract_result))
       ELSE Start("prepare_addon_source")
    /\ UNCHANGED <<addon_result, run, previous>>
    /\ UNCHANGED <<scanVars, patchVars, installVars, packagesVars, extractVars, addonVars>>

\* main.rs 50-64 and addon_preparer.rs 32-47: prepare_addon_source returns Ok or
\* the error of one of its steps, and the process ends
PrepareAddonSource ==
    /\ stage = "prepare_addon_source"
    /\ addon_result' \in {Ok(<<>>), Err(<<"io error">>)}
    /\ Exit(ExitCode(addon_result'))
    /\ UNCHANGED <<run, previous>>
    /\ UNCHANGED <<scanVars, patchVars, installVars, packagesVars, extractVars, addonVars>>

\* main.rs 7-13: the program is run again; the disk and what vcpkg has installed
\* are as the run before left them
Reinvoke ==
    /\ stage = "exited"
    /\ run < MaxRuns
    /\ run' = run + 1
    /\ previous' = IF exit_code = 0 THEN "success" ELSE started[Len(started)]
    /\ stage' = "install_vcpkg"
    /\ started' = <<"install_vcpkg">>
    /\ exit_code' = None
    /\ addon_result' = NotReturned
    /\ pc' = "install_vcpkg"
    /\ index' = 0
    /\ attempt' = 0
    /\ retry_last_error' = NoError
    /\ last_error' = NoError
    /\ clone_success' = FALSE
    /\ install_result' = NotReturned
    /\ clones' = 0
    /\ delays' = <<>>
    /\ last_failure' = NoError
    /\ bootstraps' = 0
    /\ status' = "none"
    /\ git' = "none"
    /\ UNCHANGED <<vcpkg_root_exists, vcpkg_exe_exists>>
    /\ pk_pc' = "idle"
    /\ output' = NoOutput
    /\ packages_result' = NotReturned
    /\ commands' = <<>>
    /\ removal' = "none"
    /\ ex_pc' = "idle"
    /\ target_before' = target_dir
    /\ extracted_top_dir' = "none"
    /\ extract_result' = NotReturned
    /\ fs_log' = <<>>
    /\ UNCHANGED <<installed, archive, target_dir, temp_exists, temp_entries>>
    /\ UNCHANGED <<scanVars, patchVars, addonVars>>

NextMain ==
    \/ Next
    \/ AfterInstallVcpkg
    \/ NextPackages
    \/ AfterInstallPackages
    \/ NextExtract
    \/ AfterExtractFfmpeg
    \/ PrepareAddonSource
    \/ Reinvoke

SpecMain == InitMain /\ [][NextMain]_vars

\* ------------------------------------------------------------------ prepare_addon_source

IF_POSTPROC == "#if CONFIG_POSTPROC"
ENDIF == "#endif"
INDENT == "    "
PRINT_POSTPROC == "PRINT_LIB_INFO(postproc"
PRINT_ARGS == ",   POSTPROC,   flags, level);"

\* line 460: the line of print_all_libs_info that is looked for
pattern == <<INDENT, PRINT_POSTPROC, PRINT_ARGS>>

\* line 465: the line with its guard
GuardedLine == <<IF_POSTPROC, NL>> \o pattern \o <<NL, ENDIF>>

\* lines 57-66 and 481-507: what create_config_h and create_binding_c write
config_h_content == <<"/* config.h - Generated for Windows build */ ...">>
binding_c_content == <<INCLUDE, NODE_API_H, NL, "napi_value Init(napi_env env, napi_value exports) ...">>

\* line 454: the test for a file that was modified before
AlreadyModified(content) ==
    Contains(content, <<IF_POSTPROC>>) /\ Contains(content, <<PRINT_POSTPROC>>)

\* lines 461-466: the first occurrence of the line, put between the guard
WithGuard(content) ==
    LET pos == Find(content, pattern)
    IN  SliceTo(content, pos) \o GuardedLine \o SliceFrom(content, pos + Len(pattern))

\* create_config_h that writes whether or not the file exists
create_config_h_always(file) == File(config_h_content)

\* lines 50-117: config.h after create_config_h, when the write does not fail
create_config_h(file) == IF file.exists THEN file ELSE File(config_h_content)

\* lines 478-512: binding.c after create_binding_c, when the write does not fail
create_binding_c(file) == File(binding_c_content)

\* fragments of fftools/opt_common.c, line by line
OptCommonPieces ==
    {<<IF_POSTPROC, NL>>, <<ENDIF, NL>>, pattern \o <<NL>>, <<PLAIN, NL>>}

\* line 451: what read_to_string may return for fftools/opt_common.c
OptCommonTexts == TextsOf(OptCommonPieces)

\* an fftools/ffmpeg.c as upstream has it, and one that no operation changes
UpstreamFfmpegC ==
    include_marker \o <<NL>> \o StaticTranscode \o <<LBRACE, RBRACE, NL>>
        \o <<MAIN, NL, LBRACE, RBRACE, NL>>
SettledFfmpegC == <<TRANSCODE, LBRACE, RBRACE, NL, RUN_SIG, RUN_PARAMS, NL>>

\* line 130: what read_to_string may return for fftools/ffmpeg.c
AddonSources == {UpstreamFfmpegC, SettledFfmpegC, <<PLAIN, NL>>}

\* the files when prepare_addon_source is first called: any opt_common.c next to
\* an upstream ffmpeg.c in a fresh tree, or one of a few trees around a plain
\* opt_common.c
InitAddon ==
    /\ ad_pc = "prepare_addon_source"
    /\ prepare_result = NotReturned
    /\ writes = <<>>
    /\ ad_run = 1
    /\ opt_done = FALSE
    /\ \/ /\ opt_common_c \in {Absent} \cup {File(t) : t \in OptCommonTexts}
          /\ ffmpeg_c = File(UpstreamFfmpegC)
          /\ config_h = Absent
          /\ addon_src_exists = FALSE
          /\ target_ffmpeg_c = Absent
          /\ binding_c = Absent
       \/ /\ opt_common_c \in {Absent, File(<<PLAIN, NL>> \o pattern \o <<NL>>)}
          /\ ffmpeg_c \in {Absent} \cup {File(t) : t \in AddonSources}
          /\ config_h \in {Absent, File(config_h_content), File(<<"/* config.h of configure */">>)}
          /\ addon_src_exists \in BOOLEAN
          /\ target_ffmpeg_c \in {Absent, File(<<PLAIN, NL>>)}
          /\ binding_c \in {Absent, File(binding_c_content), File(<<PLAIN, NL>>)}
          /\ ~addon_src_exists => (target_ffmpeg_c = Absent /\ binding_c = Absent)
    /\ ScanIdle
    /\ PatchIdle
    /\ InstallIdle
    /\ PackagesIdle
    /\ ExtractIdle
    /\ MainIdle

ReturnPrepare(r) ==
    /\ prepare_result' = r
    /\ ad_pc' = "done"

\* a step of prepare_addon_source is over and the next one begins
GoOn(next) ==
    /\ ad_pc' = next
    /\ UNCHANGED prepare_result

\* fs::write(path, text) has succeeded
Written(path, text) == writes' = Append(writes, [path |-> path, text |-> text])

AddonRest == <<scanVars, patchVars, installVars, packagesVars, extractVars, mainVars>>

\* lines 35-38: the addon_src directory is created, or cannot be
CreateAddonSrcDir ==
    /\ ad_pc = "prepare_addon_source"
    /\ \/ /\ addon_src_exists
          /\ GoOn("create_config_h")
          /\ UNCHANGED addon_src_exists
       \/ /\ ~addon_src_exists
          /\ ReturnPrepare(Err(<<"io error">>))
          /\ UNCHANGED addon_src_exists
       \/ /\ ~addon_src_exists
          /\ addon_src_exists' = TRUE
          /\ GoOn("create_config_h")
    /\ UNCHANGED <<config_h, opt_common_c, ffmpeg_c, target_ffmpeg_c, binding_c,
                   writes, ad_run, opt_done, AddonRest>>

\* lines 40 and 50-117
CreateConfigH ==
    /\ ad_pc = "create_config_h"
    /\ \/ /\ create_config_h(config_h) = config_h
          /\ config_h.exists
          /\ GoOn("modify_opt_common_c")
          /\ UNCHANGED <<config_h, writes>>
       \/ /\ create_config_h(config_h) # config_h
          /\ ReturnPrepare(Err(<<"io error">>))
          /\ UNCHANGED <<config_h, writes>>
       \/ /\ create_config_h(config_h) # config_h
          /\ config_h' = create_config_h(config_h)
          /\ Written("ffmpeg/config.h", config_h'.text)
          /\ GoOn("modify_opt_common_c")
    /\ UNCHANGED <<addon_src_exists, opt_common_c, ffmpeg_c, target_ffmpeg_c, binding_c,
                   ad_run, opt_done, AddonRest>>

\* lines 41 and 443-475: the file is missing, cannot be read, was modified
\* before, has the line and is written (or cannot be), or has not the line
ModifyOptCommonC ==
    /\ ad_pc = "modify_opt_common_c"
    /\ \/ /\ ~opt_common_c.exists
          /\ GoOn("copy_and_modify_ffmpeg_c")
          /\ opt_done' = TRUE
          /\ UNCHANGED <<opt_common_c, writes>>
       \/ /\ opt_common_c.exists
          /\ ReturnPrepare(Err(<<"io error">>))
          /\ UNCHANGED <<opt_common_c, writes, opt_done>>
       \/ /\ opt_common_c.exists
          /\ AlreadyModified(opt_common_c.text) \/ ~Contains(opt_common_c.text, pattern)
          /\ GoOn("copy_and_modify_ffmpeg_c")
          /\ opt_done' = TRUE
          /\ UNCHANGED <<opt_common_c, writes>>
       \/ /\ opt_common_c.exists
          /\ ~AlreadyModified(opt_common_c.text)
          /\ Contains(opt_common_c.text, pattern)
          /\ opt_common_c' = File(WithGuard(opt_common_c.text))
          /\ Written("ffmpeg/fftools/opt_common.c", opt_common_c'.text)
          /\ GoOn("copy_and_modify_ffmpeg_c")
          /\ opt_done' = TRUE
    /\ UNCHANGED <<addon_src_exists, config_h, ffmpeg_c, target_ffmpeg_c, binding_c,
                   ad_run, AddonRest>>

\* lines 42 and 120-136: the source is missing, cannot be read, or is modified
\* and written to addon_src/ffmpeg.c (or cannot be)
CopyAndModifyFfmpegC ==
    /\ ad_pc = "copy_and_modify_ffmpeg_c"
    /\ \/ /\ ~ffmpeg_c.exists
          /\ ReturnPrepare(Err(<<"Source file does not exist: ", "ffmpeg/fftools/ffmpeg.c">>))
          /\ UNCHANGED <<target_ffmpeg_c, writes>>
       \/ /\ ffmpeg_c.exists
          /\ ReturnPrepare(Err(<<"io error">>))
          /\ UNCHANGED <<target_ffmpeg_c, writes>>
       \/ /\ ffmpeg_c.exists
          /\ LET modified_content == modify_ffmpeg_c_content(ffmpeg_c.text)
             IN  IF modified_content.kind = "Err"
                 THEN /\ ReturnPrepare(modified_content)
                      /\ UNCHANGED <<target_ffmpeg_c, writes>>
                 ELSE /\ target_ffmpeg_c' = File(modified_content.text)
                      /\ Written("addon_src/ffmpeg.c", modified_content.text)
                      /\ GoOn("create_binding_c")
    /\ UNCHANGED <<addon_src_exists, config_h, opt_common_c, ffmpeg_c, binding_c,
                   ad_run, opt_done, AddonRest>>

\* lines 43-46 and 478-512
CreateBindingC ==
    /\ ad_pc = "create_binding_c"
    /\ \/ /\ ReturnPrepare(Err(<<"io error">>))
          /\ UNCHANGED <<binding_c, writes>>
       \/ /\ binding_c' = create_binding_c(binding_c)
          /\ Written("addon_src/binding.c", binding_c'.text)
          /\ ReturnPrepare(Ok(<<>>))
    /\ UNCHANGED <<addon_src_exists, config_h, opt_common_c, ffmpeg_c, target_ffmpeg_c,
                   ad_run, opt_done, AddonRest>>

\* lines 32-33: prepare_addon_source is called again on the files as they are
PrepareAgain ==
    /\ ad_pc = "done"
    /\ ad_run < MaxRuns
    /\ ad_run' = ad_run + 1
    /\ ad_pc' = "prepare_addon_source"
    /\ prepare_result' = NotReturned
    /\ writes' = <<>>
    /\ UNCHANGED <<addon_src_exists, config_h, opt_common_c, ffmpeg_c, target_ffmpeg_c,
                   binding_c, opt_done, AddonRest>>

NextAddon ==
    \/ CreateAddonSrcDir
    \/ CreateConfigH
    \/ ModifyOptCommonC
    \/ CopyAndModifyFfmpegC
    \/ CreateBindingC
    \/ PrepareAgain

SpecAddon == InitAddon /\ [][NextAddon]_vars

\* ------------------------------------------------------------------ string literals, as C reads them

\* the number of consecutive backslashes that end at index k (1-based) and lie after index lo
BackslashRun(buf, k, lo) ==
    LET stops == {j \in lo..k : j = lo \/ buf[j] # BACKSLASH}
        last == CHOOSE j \in stops : \A n \in stops : n <= j
    IN  k - last

\* the index of the quote that closes the literal opened by the quote at index o,
\* Len(buf) + 1 when the literal is not closed: a quote closes it unless an odd
\* number of backslashes stands right before it
LiteralClose(buf, o) ==
    LET closes == {j \in (o + 1)..Len(buf) :
                       buf[j] = QUOTE /\ BackslashRun(buf, j - 1, o) % 2 = 0}
    IN  IF closes = {} THEN Len(buf) + 1 ELSE Min(closes)

RECURSIVE LiteralIndices(_, _)
\* the indices from `from` on that lie in a string literal, its two quotes included
LiteralIndices(buf, from) ==
    LET opens == {j \in from..Len(buf) : buf[j] = QUOTE}
    IN  IF opens = {} THEN {}
        ELSE LET o == Min(opens)
                 c == LiteralClose(buf, o)
             IN  {j \in o..c : j <= Len(buf)} \cup LiteralIndices(buf, c + 1)

\* opening minus closing braces outside string literals among the first k bytes
DepthAfter(buf, k) ==
    LET lit == LiteralIndices(buf, 1)
    IN  Cardinality({j \in 1..k : buf[j] = LBRACE /\ j \notin lit})
          - Cardinality({j \in 1..k : buf[j] = RBRACE /\ j \notin lit})

BalancedOutsideLiterals(buf) == DepthAfter(buf, Len(buf)) = 0

\* the offset one past the closing brace that matches the opening brace at index 1
OnePastMatchingClose(buf) ==
    Min({k \in 1..Len(buf) :
            /\ buf[k] = RBRACE
            /\ k \notin LiteralIndices(buf, 1)
            /\ DepthAfter(buf, k) = 0})

\* ------------------------------------------------------------------ claims on the brace scan

\* C1: for every buffer that starts at an opening brace and whose braces outside
\* string literals are balanced, the finished scan has found the offset one past
\* the closing brace that matches the first opening brace, whatever braces stand
\* inside string literals.
C1_ScanFindsMatchingClose ==
    (scan_pc = "done" /\ BalancedOutsideLiterals(bytes))
        => end_pos = OnePastMatchingClose(bytes)

\* a finished scan of a balanced buffer with an unbalanced brace inside a string
\* literal that stands before the matching close
C1_Witness ==
    /\ scan_pc = "done"
    /\ BalancedOutsideLiterals(bytes)
    /\ end_pos # None
    /\ \E k \in 1..Len(bytes) :
          /\ k < end_pos
          /\ k \in LiteralIndices(bytes, 1)
          /\ bytes[k] \in {LBRACE, RBRACE}
    /\ Cardinality({k \in 1..Len(bytes) : bytes[k] = LBRACE})
          # Cardinality({k \in 1..Len(bytes) : bytes[k] = RBRACE})

\* C2 as stated: a quote right after a backslash inside a string literal (the
\* scanner is inside the string, the byte just read is a backslash, the byte to
\* read is a quote) leaves the scanner inside the string.
C2_QuoteAfterAnyBackslash ==
    [][(scan_pc = "scan" /\ in_string /\ i >= 1 /\ i < Len(bytes)
          /\ bytes[i] = BACKSLASH /\ bytes[i + 1] = QUOTE) => in_string']_vars

\* C2 amended: a quote right after a backslash that is not itself escaped (an odd
\* number of backslashes stands right before the quote) inside a string literal
\* leaves the scanner inside the string, and no byte read inside a string
\* literal changes the brace count.
C2_EscapedQuoteStaysInString ==
    [][/\ (scan_pc = "scan" /\ in_string /\ i >= 1 /\ i < Len(bytes)
             /\ bytes[i + 1] = QUOTE /\ BackslashRun(bytes, i, 0) % 2 = 1)
          => in_string'
       /\ (scan_pc = "scan" /\ in_string /\ i < Len(bytes))
          => brace_count' = brace_count]_vars

\* the scan has read a quote, a backslash, a quote and a closing brace, is still
\* inside the string and has not counted the brace
C2_Witness ==
    /\ scan_pc = "scan"
    /\ i >= 5
    /\ bytes[i - 3] = QUOTE
    /\ bytes[i - 2] = BACKSLASH
    /\ bytes[i - 1] = QUOTE
    /\ bytes[i] = RBRACE
    /\ (i - 2) \in LiteralIndices(bytes, 1)
    /\ in_string
    /\ brace_count = 1

\* ------------------------------------------------------------------ claims on the patch operations

\* the offsets at which pat occurs in text
Occurrences(text, pat) == {k \in 0..Len(text) : MatchesAt(text, pat, k)}

\* text without the tokens at the indices in drop, the others in their order
WithoutIndices(text, drop) ==
    LET keep == (1..Len(text)) \ drop
        nth(j) == CHOOSE k \in keep : Cardinality({m \in keep : m <= k}) = j
    IN  [j \in 1..Cardinality(keep) |-> text[nth(j)]]

\* the signature is in text, and no brace after it has a matching close before the end
NoMatchingClose(text) ==
    /\ Contains(text, main_start)
    /\ LET start_pos == Find(text, main_start)
           func_start == Find(SliceFrom(text, start_pos), <<LBRACE>>)
       IN  \/ func_start = None
           \/ ScanBraces(text, start_pos + func_start) = None

\* C3: remove_main_function returns an error, not success, when the signature
\* is absent from the text it is given and when the signature is there but no
\* matching closing brace is found before the end of the text.
C3_RemovalFailsOnDrift ==
    (applied = "remove_main_function"
        /\ (~Contains(input, main_start) \/ NoMatchingClose(input)))
        => result = "Err"

\* C4: add_napi_include returns an error, not success, when the landmark
\* include is absent and the include to insert is not in the text yet.
C4_InsertionFailsWithoutMarker ==
    (applied = "add_napi_include"
        /\ ~Contains(input, include_marker) /\ ~Contains(input, NapiInclude))
        => result = "Err"

\* C5: the visibility change is idempotent: applied to its own output, either
\* replacement returns that output unchanged.
C5_VisibilityChangeIdempotent ==
    [][/\ (applied = "replace_transcode" /\ applied' = "replace_transcode")
             => modified' = modified
       /\ (applied = "replace_cleanup" /\ applied' = "replace_cleanup")
             => modified' = modified]_vars

\* C6: function removal is idempotent: applied to its own output,
\* remove_main_function returns that output unchanged, whatever the number of
\* occurrences of the signature.
C6_RemovalIdempotent ==
    [][(applied = "remove_main_function" /\ applied' = "remove_main_function")
          => modified' = modified]_vars

\* C7: the insertions are idempotent: add_napi_include and add_ffmpeg_run_function
\* each return their own output unchanged, and an application adds the include
\* (the definition of ffmpeg_run) at most once, and only to a text without it.
C7_InsertionsIdempotent ==
    [][/\ (applied = "add_napi_include" /\ applied' = "add_napi_include")
             => modified' = modified
       /\ (applied = "add_ffmpeg_run_function" /\ applied' = "add_ffmpeg_run_function")
             => modified' = modified
       /\ applied' = "add_napi_include"
             => LET n == Cardinality(Occurrences(modified, NapiInclude))
                    n2 == Cardinality(Occurrences(modified', NapiInclude))
                IN  IF n = 0 THEN n2 <= 1 ELSE n2 = n
       /\ applied' = "add_ffmpeg_run_function"
             => LET n == Cardinality(Occurrences(modified, FfmpegRunSig))
                    n2 == Cardinality(Occurrences(modified', FfmpegRunSig))
                IN  IF n = 0 THEN n2 = 1 ELSE n2 = n]_vars

\* add_napi_include has inserted the include after the landmark and has then
\* been applied to its own output
C7_Witness ==
    /\ applied = "add_napi_include"
    /\ input = modified
    /\ Contains(modified, include_marker \o <<NL>> \o NapiInclude \o <<NL>>)
    /\ Cardinality(Occurrences(modified, NapiInclude)) = 1

\* C8: the replacement of line 142 changes the matched signatures only: its
\* output is its input without the "static " of every occurrence of
\* "static int transcode(Scheduler *sch)", every other token kept in its place;
\* without an occurrence the output is the input; no error is raised.
C8_VisibilityChangeFrame ==
    applied = "replace_transcode"
        => /\ result = "Ok"
           /\ modified = WithoutIndices(input,
                            {k + 1 : k \in Occurrences(input, StaticTranscode)})
           /\ (~Contains(input, StaticTranscode) => modified = input)

\* the signature has been rewritten in a text that holds other tokens before and after it
C8_Witness ==
    /\ applied = "replace_transcode"
    /\ Occurrences(input, StaticTranscode) = {1}
    /\ Len(input) = 4
    /\ modified = <<input[1], TRANSCODE, input[4]>>

\* ------------------------------------------------------------------ claims on install_vcpkg

\* C9: when install_vcpkg has returned and every clone it invoked failed, it
\* invoked exactly max_retries clones on each mirror (9), and it returned the
\* error that carries the failure of the last clone; it never invokes more.
C9_ExactlyNTimesMClones ==
    /\ clones <= max_retries * Len(mirrors)
    /\ (pc = "done" /\ clones > 0 /\ ~clone_success)
          => /\ clones = max_retries * Len(mirrors)
             /\ install_result =
                   Err(AllMirrorsFailed(AllAttemptsFailed(max_retries, last_failure)))

\* every clone failed, the last one with another failure than the one before it
C9_Witness ==
    /\ pc = "done"
    /\ clones = 9
    /\ ~clone_success
    /\ install_result.kind = "Err"
    /\ last_failure = <<"git clone failed: ", 2>>
    /\ last_error # AllAttemptsFailed(max_retries, <<"git command error: ", "io">>)

\* C10 as stated: over all the clone attempts of one call, in the order made, the
\* wait before an attempt is never shorter than the wait before the previous one.
C10_DelayNeverShrinks ==
    \A k \in 2..Len(delays) : delays[k].seconds >= delays[k - 1].seconds

\* C10 amended: over the clone attempts on one mirror, the wait before an attempt
\* is never shorter than the wait before the previous attempt on that mirror.
C10_DelayNeverShrinksOnOneMirror ==
    \A k \in 2..Len(delays) :
        delays[k].mirror = delays[k - 1].mirror
            => delays[k].seconds >= delays[k - 1].seconds

\* the three attempts on the second mirror have been made
C10_Witness ==
    /\ Len(delays) >= 2 * max_retries
    /\ delays[Len(delays)].mirror = 1
    /\ delays[Len(delays)].attempt = max_retries
    /\ delays[Len(delays)].seconds > delays[Len(delays) - 1].seconds

\* C19: whenever a clone is about to be invoked (the first attempt, a retry, the
\* first attempt on a later mirror), vcpkg_root does not exist, also after a
\* removal that failed.
C19_CloneIntoAbsentRoot ==
    pc = "clone" => ~vcpkg_root_exists

\* C20: install_vcpkg returns Ok only with the executable in place; once a clone
\* has succeeded the bootstrap script is invoked exactly once; a script that
\* failed or could not be run, or a missing executable after it, gives Err; and
\* after the script was invoked no clone and no bootstrap is invoked again.
C20_SuccessOnlyWithExecutable ==
    /\ [](/\ (pc = "done" /\ install_result.kind = "Ok") => vcpkg_exe_exists
          /\ bootstraps <= 1
          /\ (clone_success /\ pc \in {"verify", "done"}) => bootstraps = 1
          /\ (pc = "done" /\ status \in {"io error", "non-zero"})
                => install_result.kind = "Err"
          /\ (pc = "done" /\ bootstraps = 1 /\ ~vcpkg_exe_exists)
                => install_result.kind = "Err")
    /\ [][bootstraps >= 1 => (clones' = clones /\ bootstraps' = bootstraps)]_vars

\* the script ran with success after a clone and left no executable, and
\* install_vcpkg returned
C20_Witness ==
    /\ pc = "done"
    /\ clone_success
    /\ clones >= 2
    /\ bootstraps = 1
    /\ status = "success"
    /\ ~vcpkg_exe_exists
    /\ install_result.kind = "Err"

\* ------------------------------------------------------------------ what vcpkg has installed

\* ffmpeg is installed, and for other triplets than the target only
ListedOnlyForOtherTriplets(r) ==
    /\ \E e \in r : e.name = "ffmpeg"
    /\ \A e \in r : e.name = "ffmpeg" => e.triplet # triplet

\* ffmpeg is installed for the target triplet without one of the features
LacksAFeature(r) ==
    \E e \in r : /\ e.name = "ffmpeg"
                 /\ e.triplet = triplet
                 /\ e.features # {"x264", "x265", "vpx"}

\* C11: the feature check returns false, so install_packages goes on to the
\* second listing, whenever ffmpeg is listed for other triplets only, whatever
\* the features listed, whether or not that triplet starts with the target's and
\* whether or not the line of another package carries the target triplet.
C11_FalseForOtherTriplets ==
    (commands = <<ListCommand>> /\ output.kind = "success"
        /\ ListedOnlyForOtherTriplets(installed))
    => pk_pc = "list"

\* C12: when the feature check passes, install_packages returns Ok having issued
\* the listing and nothing else: no remove, no install.
C12_NoOpWhenFeaturesPresent ==
    (pk_pc \notin {"install_packages", "features"} /\ Len(commands) = 1
        /\ is_ffmpeg_with_features(output, required_features))
    => /\ pk_pc = "done"
       /\ packages_result = Ok(<<>>)
       /\ commands = <<ListCommand>>

\* ffmpeg is installed for the target with every feature, the check passed and
\* install_packages returned
C12_Witness ==
    /\ pk_pc = "done"
    /\ packages_result = Ok(<<>>)
    /\ commands = <<ListCommand>>
    /\ is_ffmpeg_with_features(output, required_features)
    /\ ~LacksAFeature(installed)
    /\ \E e \in installed : e.name = "ffmpeg" /\ e.triplet = triplet

Did(change) == \E k \in 1..Len(fs_log) : fs_log[k] = change

\* the change a was made, and before the change b
DidBefore(a, b) ==
    \E k \in 1..Len(fs_log) :
        /\ fs_log[k] = a
        /\ \A n \in 1..Len(fs_log) : fs_log[n] = b => k < n

\* C14: when extract_ffmpeg returns after it created the staging directory, with
\* Ok or with an error, the staging directory does not exist.
C14_StagingGoneAtReturn ==
    (ex_pc = "done" /\ Did("create staging")) => ~temp_exists

\* C15 as stated: when extract_ffmpeg returns Ok for an archive with a single
\* top-level directory, output/ffmpeg holds that directory's contents, and a
\* directory that was at the path before was removed first.
C15_TargetHoldsArchive ==
    (ex_pc = "done" /\ extract_result = Ok(<<>>) /\ archive = "single")
    => /\ target_dir \in TopDirs(archive)
       /\ target_before # "absent" => DidBefore("remove target", "rename")

\* C15: when extract_ffmpeg returns Ok for an archive with a single top-level
\* directory and no directory was at output/ffmpeg at the call, output/ffmpeg
\* holds that directory's contents and what was at the path was removed before
\* the rename; when a directory was there, it is left as it was and nothing is
\* unpacked.
C15_TargetHoldsArchiveUnlessPresent ==
    (ex_pc = "done" /\ extract_result = Ok(<<>>) /\ archive = "single")
    => IF target_before \in {"absent", "file"}
       THEN /\ target_dir \in TopDirs(archive)
            /\ target_before # "absent" => DidBefore("remove target", "rename")
            /\ Did("rename")
       ELSE /\ target_dir = target_before
            /\ fs_log = <<>>

\* a file was at output/ffmpeg, it was removed and the archive's directory renamed
C15_Witness ==
    /\ ex_pc = "done"
    /\ extract_result = Ok(<<>>)
    /\ archive = "single"
    /\ target_before = "file"
    /\ target_dir = "ffmpeg-src"
    /\ DidBefore("remove target", "rename")

\* C16 as stated: when the unpacked archive has no top-level directory,
\* extract_ffmpeg returns an error, output/ffmpeg is as it was, and the staging
\* directory does not exist.
C16_NoTopLevelLeavesNothing ==
    (ex_pc = "done" /\ Did("unpack") /\ TopDirs(archive) = {})
    => /\ extract_result.kind = "Err"
       /\ target_dir = target_before
       /\ ~temp_exists

\* C16: when the unpacked archive has no top-level directory, extract_ffmpeg
\* returns an error and output/ffmpeg is as it was; the staging directory does
\* not exist unless its removal failed, and then that failure is the error.
C16_NoTopLevelLeavesNothingUnlessRemovalFails ==
    (ex_pc = "done" /\ Did("unpack") /\ TopDirs(archive) = {})
    => /\ extract_result.kind = "Err"
       /\ target_dir = target_before
       /\ ~Did("rename")
       /\ temp_exists => extract_result = Err(<<"io error">>)
       /\ ~temp_exists
            => extract_result = Err(<<"Top-level directory not found after extraction">>)

\* an archive of files only was unpacked, the staging directory removed and the
\* error returned
C16_Witness ==
    /\ ex_pc = "done"
    /\ archive = "flat"
    /\ Did("unpack")
    /\ ~temp_exists
    /\ extract_result = Err(<<"Top-level directory not found after extraction">>)

\* ------------------------------------------------------------------ the runs of main

\* a remove or an install was issued in this run
RemovedOrInstalled ==
    \E k \in 1..Len(commands) : commands[k] \in {RemoveCommand, InstallCommand}

\* the first n calls of main
FirstStages(n) == SubSeq(Stages, 1, n)

\* C17 as stated: in a run that follows a run whose install_packages failed,
\* install_vcpkg invokes no clone and no bootstrap; in a run that follows a run
\* that succeeded, there is no clone, bootstrap, remove, install or extraction.
C17_RerunRepeatsNothing ==
    /\ (run > 1 /\ previous = "install_packages") => (clones = 0 /\ bootstraps = 0)
    /\ (run > 1 /\ previous = "success")
        => /\ clones = 0
           /\ bootstraps = 0
           /\ ~RemovedOrInstalled
           /\ fs_log = <<>>

\* C17: in a run that follows a run whose install_packages failed, install_vcpkg
\* invokes no clone and no bootstrap; in a run that follows a run that succeeded
\* there is no clone, bootstrap or extraction, and no remove or install when the
\* listing of the feature check succeeds: install_packages returns Ok after it.
C17_RerunRepeatsNothingWhenListed ==
    /\ (run > 1 /\ previous = "install_packages")
        => /\ clones = 0
           /\ bootstraps = 0
           /\ pc = "done" => install_result = Ok(<<>>)
    /\ (run > 1 /\ previous = "success")
        => /\ clones = 0
           /\ bootstraps = 0
           /\ fs_log = <<>>
           /\ (Len(commands) = 1 /\ pk_pc # "features" /\ output.kind = "success")
                => (pk_pc = "done" /\ packages_result = Ok(<<>>))
           /\ RemovedOrInstalled => Len(commands) > 1

\* the second run, after a run that succeeded, listed the packages and went on to
\* find ffmpeg extracted
C17_Witness ==
    /\ run = 2
    /\ previous = "success"
    /\ commands = <<ListCommand>>
    /\ output.kind = "success"
    /\ ex_pc = "done"
    /\ extract_result = Ok(<<>>)

\* C18: main makes its calls in the order install_vcpkg, install_packages,
\* extract_ffmpeg, prepare_addon_source; a call is running only in its stage and
\* starts only after every earlier one returned Ok; after the first Err no later
\* call is started and the process exits with a non-zero code.
C18_StagesInOrder ==
    /\ started = FirstStages(Len(started))
    /\ stage \in {"exited", started[Len(started)]}
    /\ Len(started) >= 2 => install_result = Ok(<<>>)
    /\ Len(started) >= 3 => packages_result = Ok(<<>>)
    /\ Len(started) >= 4 => extract_result = Ok(<<>>)
    /\ stage # "install_vcpkg" => pc = "done"
    /\ pk_pc \notin {"idle", "done"} => stage = "install_packages"
    /\ ex_pc \notin {"idle", "done"} => stage = "extract_ffmpeg"
    /\ Len(started) < 2 => pk_pc = "idle"
    /\ Len(started) < 3 => ex_pc = "idle"
    /\ Len(started) < 4 => addon_result = NotReturned
    /\ stage = "exited" <=> exit_code # None
    /\ exit_code \in {None, 0, 1}
    /\ exit_code = 0 => (Len(started) = 4 /\ addon_result = Ok(<<>>))
    /\ exit_code = 1
        => \/ Len(started) = 1 /\ install_result.kind = "Err"
           \/ Len(started) = 2 /\ packages_result.kind = "Err"
           \/ Len(started) = 3 /\ extract_result.kind = "Err"
           \/ Len(started) = 4 /\ addon_result.kind = "Err"

\* extract_ffmpeg returned an error after the two calls before it returned Ok, and
\* the process exited with 1 without preparing the addon source
C18_Witness ==
    /\ stage = "exited"
    /\ exit_code = 1
    /\ started = FirstStages(3)
    /\ extract_result.kind = "Err"
    /\ addon_result = NotReturned

\* ------------------------------------------------------------------ the order of the clones

\* the mirror (counted from 0) and the attempt (counted from 1) of the k-th clone
\* when mirrors are taken in list order and each is given every attempt
MirrorOfClone(k) == (k - 1) \div 3
AttemptOfClone(k) == ((k - 1) % 3) + 1

\* C23: the clones are made one after the other, in list order of the mirrors and
\* in order of the attempts: a clone on the next mirror comes only after three
\* failed attempts on the mirror before, and after a clone has succeeded no
\* other clone is made.
C23_MirrorsAndRetriesInSequence ==
    /\ [](/\ \A k \in 1..Len(delays) :
                /\ delays[k].mirror = MirrorOfClone(k)
                /\ delays[k].attempt = AttemptOfClone(k)
          /\ Len(delays) <= 3 * Len(mirrors)
          /\ clones \in {Len(delays), Len(delays) - 1}
          /\ clones = Len(delays) - 1 <=> pc = "clone"
          /\ pc \in {"attempts", "clone", "mirrors"} => ~clone_success)
    /\ [][clone_success => (clones' = clones /\ delays' = delays)]_vars
    /\ [][clones' # clones => (clones' = clones + 1 /\ ~clone_success)]_vars

\* the first mirror failed three times and the first clone on the second succeeded
C23_Witness ==
    /\ clone_success
    /\ clones = 4
    /\ Len(delays) = 4
    /\ delays[4].mirror = 1
    /\ delays[4].attempt = 1
    /\ pc = "done"

C28_NoGitNoChange ==
    /\ [](git \in {"io error", "non-zero"}
            => /\ pc = "done"
               /\ install_result.kind = "Err"
               /\ ~vcpkg_exe_exists
               /\ clones = 0
               /\ delays = <<>>
               /\ bootstraps = 0)
    /\ [][(git' \in {"io error", "non-zero"} \/ pc \in {"install_vcpkg", "check_git"})
            => UNCHANGED <<vcpkg_root_exists, vcpkg_exe_exists>>]_vars

\* git is not installed and a vcpkg_root without executable is on disk
C28_Witness ==
    /\ pc = "done"
    /\ git = "non-zero"
    /\ vcpkg_root_exists
    /\ ~vcpkg_exe_exists
    /\ install_result = Err(<<"git is not installed or not in PATH, please install git first">>)

\* C26: when nothing is at output/ffmpeg and the downloads directory is missing or
\* holds no ffmpeg*.tar.gz, extract_ffmpeg returns the error that the archive was
\* not found and has changed nothing: no staging directory was created and
\* output/ffmpeg is still absent.
C26_ArchiveMissing ==
    (ex_pc = "done" /\ target_before = "absent" /\ archive \in {"missing", "none"})
    => /\ extract_result
            = Err(<<"ffmpeg tar.gz file not found, please install ffmpeg package first">>)
       /\ fs_log = <<>>
       /\ target_dir = "absent"

\* the downloads directory is missing and extract_ffmpeg returned
C26_Witness ==
    /\ ex_pc = "done"
    /\ target_before = "absent"
    /\ archive = "missing"
    /\ ~temp_exists
    /\ extract_result.kind = "Err"

\* the depth outside string literals is zero nowhere in the buffer
NeverBackToZero(buf) == \A k \in 1..Len(buf) : DepthAfter(buf, k) # 0

\* C27: the scan reads the bytes in order, each once, and comes to an end; when
\* the buffer ends before the depth is back to zero no match is reported; a match
\* is reported only at a closing brace outside string literals after which the
\* depth outside string literals is zero.
C27_SinglePassTerminates ==
    /\ [](/\ i \in 0..Len(bytes)
          /\ (scan_pc = "done" /\ NeverBackToZero(bytes)) => end_pos = None
          /\ end_pos # None
               => /\ end_pos = i
                  /\ bytes[end_pos] = RBRACE
                  /\ end_pos \notin LiteralIndices(bytes, 1)
                  /\ DepthAfter(bytes, end_pos) = 0)
    /\ [][/\ bytes' = bytes
          /\ scan_pc = "scan"
          /\ \/ i' = i + 1
             \/ i' = i /\ i = Len(bytes) /\ scan_pc' = "done"]_vars
    /\ <>(scan_pc = "done")

\* a scan that read the whole of a buffer whose depth never came back to zero
C27_Witness ==
    /\ scan_pc = "done"
    /\ i = Len(bytes)
    /\ Len(bytes) >= 4
    /\ NeverBackToZero(bytes)
    /\ end_pos = None
    /\ \E k \in 1..Len(bytes) : bytes[k] = RBRACE

\* ------------------------------------------------------------------ the span of the removed function

\* the index of the first token of the first occurrence of the signature, 0 without one
SignatureAt(text) ==
    LET at == {k \in 1..Len(text) : SubSeq(text, k, k + Len(main_start) - 1) = main_start}
    IN  IF at = {} THEN 0 ELSE Min(at)

\* the index of the first opening brace from the signature on, 0 without one
BodyAt(text) ==
    LET s == SignatureAt(text)
        at == {k \in s..Len(text) : s # 0 /\ text[k] = LBRACE}
    IN  IF at = {} THEN 0 ELSE Min(at)

\* the text from the first opening brace after the signature on
FromBody(text) == SubSeq(text, BodyAt(text), Len(text))

\* the closing brace that matches that opening brace is in the text
BodyCloses(text) ==
    /\ BodyAt(text) # 0
    /\ \E k \in 1..Len(FromBody(text)) :
          /\ FromBody(text)[k] = RBRACE
          /\ k \notin LiteralIndices(FromBody(text), 1)
          /\ DepthAfter(FromBody(text), k) = 0

\* the text before the signature, and the text after the matching closing brace
BeforeSignature(text) == SubSeq(text, 1, SignatureAt(text) - 1)
AfterBody(text) ==
    SubSeq(text, BodyAt(text) + OnePastMatchingClose(FromBody(text)), Len(text))

\* text without the line breaks and blanks at its end, at its start
WithoutTrailingBlanks(text) ==
    LET ends == {k \in 0..Len(text) : \A j \in (k + 1)..Len(text) : text[j] \in {NL, SPACE}}
    IN  SubSeq(text, 1, Min(ends))
WithoutLeadingBlanks(text) ==
    LET starts == {k \in 1..(Len(text) + 1) : \A j \in 1..(k - 1) : text[j] \in {NL, SPACE}}
        first == CHOOSE k \in starts : \A n \in starts : n <= k
    IN  SubSeq(text, first, Len(text))

\* C25 as stated: when the function is removed, the output is the text before
\* the first occurrence of the signature, the comment, and the text after the
\* brace that matches the first opening brace after the signature, each token of
\* the two kept as it is.
C25_RemovalFrame ==
    (applied = "remove_main_function" /\ BodyCloses(input))
    => /\ result = "Ok"
       /\ modified = BeforeSignature(input) \o RemovedComment \o AfterBody(input)

\* C25: when the function is removed, the output is the text before the first
\* occurrence of the signature without the line breaks and blanks at its end,
\* the comment, and the text after the brace that matches the first opening
\* brace after the signature without the line breaks and blanks at its start;
\* every other token is kept as it is.
C25_RemovalFrameButBlanks ==
    (applied = "remove_main_function" /\ BodyCloses(input))
    => /\ result = "Ok"
       /\ modified = WithoutTrailingBlanks(BeforeSignature(input))
                        \o RemovedComment
                        \o WithoutLeadingBlanks(AfterBody(input))

\* main() removed from between two lines: the line break before the signature and
\* the one after the closing brace are gone, the lines are kept
C25_Witness ==
    /\ applied = "remove_main_function"
    /\ input = <<PLAIN, NL, MAIN, NL, LBRACE, RBRACE, NL, PLAIN, NL>>
    /\ BodyCloses(input)
    /\ modified = <<PLAIN, REMOVED, NL, PLAIN, NL>>

\* the writes of addon_src/ffmpeg.c made by the call that is running or was last
TargetWrites == {w \in DOMAIN writes : writes[w].path = "addon_src/ffmpeg.c"}

\* C21 as stated: addon_src/ffmpeg.c is written only if some operation changed
\* the text loaded from fftools/ffmpeg.c, so that every text written to it
\* differs from the text that was loaded.
C21_TargetWrittenOnlyOnChange ==
    \A w \in TargetWrites : writes[w].text # ffmpeg_c.text

\* the write of binding.c with its fixed content is the last thing done
BindingWritten ==
    /\ writes # <<>>
    /\ writes[Len(writes)] = [path |-> "addon_src/binding.c", text |-> binding_c_content]

\* C22: over any sequence of prepare_addon_source runs, a config.h that exists
\* is never changed and config.h is written only where none was, with the
\* generated content; binding.c changes only to its fixed content, and every
\* run that returns without an error has written binding.c with that content.
C22_NewFileRules ==
    /\ [][/\ config_h.exists => config_h' = config_h
          /\ config_h' # config_h => config_h' = File(config_h_content)
          /\ (\E w \in DOMAIN writes' : writes'[w].path = "ffmpeg/config.h")
                => (\E w \in DOMAIN writes : writes[w].path = "ffmpeg/config.h")
                   \/ ~config_h.exists
          /\ binding_c' # binding_c => binding_c' = File(binding_c_content)]_vars
    /\ [](prepare_result = Ok(<<>>)
            => binding_c = File(binding_c_content) /\ BindingWritten)

\* the second run has returned: the config.h that configure had made is as it
\* was, binding.c has been written again
C22_Witness ==
    /\ ad_run = 2
    /\ ad_pc = "done"
    /\ prepare_result = Ok(<<>>)
    /\ config_h = File(<<"/* config.h of configure */">>)
    /\ binding_c = File(binding_c_content)
    /\ BindingWritten

\* the preprocessor lines of opt_common.c
Directives == {IF_POSTPROC, ENDIF}

\* the line at offset pos is enclosed: the nearest directive before it is the
\* #if, the nearest after it is the #endif
Enclosed(text, pos) ==
    /\ \E a \in 1..pos :
          /\ text[a] = IF_POSTPROC
          /\ \A k \in (a + 1)..pos : text[k] \notin Directives
    /\ \E j \in (pos + Len(pattern) + 1)..Len(text) :
          /\ text[j] = ENDIF
          /\ \A k \in (pos + Len(pattern) + 1)..(j - 1) : text[k] \notin Directives

\* C29 as stated: once modify_opt_common_c has returned for an opt_common.c that
\* has the PRINT_LIB_INFO(postproc, ...) line, the first such line is enclosed
\* between #if CONFIG_POSTPROC and #endif, and a further run leaves the file as
\* it is.
C29_LineGuardedAndStable ==
    /\ []((opt_done /\ opt_common_c.exists /\ Contains(opt_common_c.text, pattern))
            => Enclosed(opt_common_c.text, Find(opt_common_c.text, pattern)))
    /\ [][opt_done => opt_common_c' = opt_common_c]_vars

====
